---- MODULE Spec2Model ----
(***************************************************************************)
(* wp-parse-api: the RawData buffer (src/src/lib.rs) and the conversion of *)
(* DataErrKind into WparseError (src/src/error.rs).                        *)
(*                                                                         *)
(* A payload buffer lives in `heap`.  A holder is a thread that owns at    *)
(* most one RawData value (`slot`); `out` is the Bytes that to_bytes or     *)
(* into_bytes last returned.  Holders act in any interleaving.             *)
(***************************************************************************)
EXTENDS Integers, Sequences, FiniteSets, TLC

VARIABLES heap, slot, out, ev, kind, werr

vars == <<heap, slot, out, ev, kind, werr>>
bufVars == <<heap, slot, out, ev>>
errVars == <<kind, werr>>

(***************************************************************************)
(* Bounds                                                                  *)
(***************************************************************************)
NumHolders == 2
MaxBufs == 2
MaxLen == 3
MaxMsgLen == 2

Holders == 1..NumHolders
BufIds == 1..MaxBufs

\* The bytes payloads are built from: 'A', the two-byte lead C3, the
\* continuation bytes A9 and 82, the three-byte lead E2, and FF FE FD, which
\* occur in no well-formed UTF-8 sequence.
SampleBytes == {65, 195, 169, 130, 226, 255, 254, 253}

Payloads == UNION {[1..n -> SampleBytes] : n \in 0..MaxLen}

(***************************************************************************)
(* UTF-8, as the standard library computes it                              *)
(***************************************************************************)
\* char::encode_utf8: the bytes of one code point.
EncodeUtf8(c) ==
    IF c < 128 THEN <<c>>
    ELSE IF c < 2048 THEN <<192 + (c \div 64), 128 + (c % 64)>>
    ELSE IF c < 65536 THEN
        <<224 + (c \div 4096), 128 + ((c \div 64) % 64), 128 + (c % 64)>>
    ELSE <<240 + (c \div 262144), 128 + ((c \div 4096) % 64),
           128 + ((c \div 64) % 64), 128 + (c % 64)>>

\* A char is a Unicode scalar value: no surrogate, at most 10FFFF.
IsScalar(c) == c >= 0 /\ c <= 1114111 /\ ~(c >= 55296 /\ c <= 57343)

\* The code point whose bits the byte sequence s carries, read without any
\* validation (lead byte payload bits, then six bits per following byte).
RawCodePoint(s) ==
    IF Len(s) = 1 THEN s[1]
    ELSE IF Len(s) = 2 THEN (s[1] % 32) * 64 + (s[2] % 64)
    ELSE IF Len(s) = 3 THEN (s[1] % 16) * 4096 + (s[2] % 64) * 64 + (s[3] % 64)
    ELSE (s[1] % 8) * 262144 + (s[2] % 64) * 4096 + (s[3] % 64) * 64 + (s[4] % 64)

\* s is the encoding of one char.
IsCharEncoding(s) ==
    /\ Len(s) \in 1..4
    /\ IsScalar(RawCodePoint(s))
    /\ EncodeUtf8(RawCodePoint(s)) = s

\* b[i..] is a str: a concatenation of char encodings.
RECURSIVE IsStrFrom(_, _)
IsStrFrom(b, i) ==
    \/ i > Len(b)
    \/ \E n \in 1..4 :
        /\ i + n - 1 <= Len(b)
        /\ IsCharEncoding(SubSeq(b, i, i + n - 1))
        /\ IsStrFrom(b, i + n)

IsStr(b) == IsStrFrom(b, 1)

\* The values of type String / &str within the bounds.
Strs == {p \in Payloads : IsStr(p)}

\* U+FFFD REPLACEMENT CHARACTER, as a str.
Replacement == EncodeUtf8(65533)

\* core::str::utf8_char_width
Utf8CharWidth(byte) ==
    IF byte < 128 THEN 1
    ELSE IF byte >= 194 /\ byte <= 223 THEN 2
    ELSE IF byte >= 224 /\ byte <= 239 THEN 3
    ELSE IF byte >= 240 /\ byte <= 244 THEN 4
    ELSE 0

\* byte & 192 == TAG_CONT_U8
IsCont(byte) == byte \div 64 = 2

\* Utf8Chunks::next, one pass of its loop at index i: whether a whole char was
\* read, and the number of bytes inspected (on failure, the invalid bytes that
\* one replacement character stands for).
ScanChar(b, i) ==
    LET byte == b[i]
        get(k) == IF i + k <= Len(b) THEN b[i + k] ELSE 0
        w == Utf8CharWidth(byte)
        bad(n) == [ok |-> FALSE, n |-> n]
        good(n) == [ok |-> TRUE, n |-> n]
        second3 ==
            \/ byte = 224 /\ get(1) >= 160 /\ get(1) <= 191
            \/ byte >= 225 /\ byte <= 236 /\ get(1) >= 128 /\ get(1) <= 191
            \/ byte = 237 /\ get(1) >= 128 /\ get(1) <= 159
            \/ byte >= 238 /\ byte <= 239 /\ get(1) >= 128 /\ get(1) <= 191
        second4 ==
            \/ byte = 240 /\ get(1) >= 144 /\ get(1) <= 191
            \/ byte >= 241 /\ byte <= 243 /\ get(1) >= 128 /\ get(1) <= 191
            \/ byte = 244 /\ get(1) >= 128 /\ get(1) <= 143
    IN  IF byte < 128 THEN good(1)
        ELSE IF w = 2 THEN
            IF ~IsCont(get(1)) THEN bad(1) ELSE good(2)
        ELSE IF w = 3 THEN
            IF ~second3 THEN bad(1)
            ELSE IF ~IsCont(get(2)) THEN bad(2)
            ELSE good(3)
        ELSE IF w = 4 THEN
            IF ~second4 THEN bad(1)
            ELSE IF ~IsCont(get(2)) THEN bad(2)
            ELSE IF ~IsCont(get(3)) THEN bad(3)
            ELSE good(4)
        ELSE bad(1)

RECURSIVE LossyFrom(_, _)
LossyFrom(b, i) ==
    IF i > Len(b) THEN <<>>
    ELSE LET r == ScanChar(b, i)
         IN  IF r.ok THEN SubSeq(b, i, i + r.n - 1) \o LossyFrom(b, i + r.n)
             ELSE Replacement \o LossyFrom(b, i + r.n)

\* A decoding that drops the invalid bytes instead of marking them.
RECURSIVE SkipFrom(_, _)
SkipFrom(b, i) ==
    IF i > Len(b) THEN <<>>
    ELSE LET r == ScanChar(b, i)
         IN  IF r.ok THEN SubSeq(b, i, i + r.n - 1) \o SkipFrom(b, i + r.n)
             ELSE SkipFrom(b, i + r.n)

FromUtf8Skip(b) == SkipFrom(b, 1)

\* String::from_utf8_lossy
FromUtf8Lossy(b) == LossyFrom(b, 1)

(***************************************************************************)
(* The heap of payload buffers                                             *)
(***************************************************************************)
\* st: "free" or "live".  owner: what owns a live buffer: a String
\* ("string"), a Bytes and its clones ("bytes", counted by refs) or an
\* Arc<Vec<u8>> and its clones ("arc", counted by strong).
Free == [st |-> "free", owner |-> "none", data |-> <<>>, strong |-> 0, refs |-> 0]

HasFresh(hp) == \E b \in BufIds : hp[b].st = "free"

\* The allocator hands out the lowest free buffer.
Fresh(hp) == CHOOSE b \in BufIds :
    /\ hp[b].st = "free"
    /\ \A c \in BufIds : hp[c].st = "free" => b <= c

\* A copy that loses the last element.
CopySliceShort(s) == [i \in 1..(IF Len(s) = 0 THEN 0 ELSE Len(s) - 1) |-> s[i]]

\* <[u8]>::to_vec / Bytes::copy_from_slice / String::clone: a new sequence
\* holding the elements of s.
CopySlice(s) == [i \in 1..Len(s) |-> s[i]]

\* A String in the new buffer b, holding s.
StringNew(hp, b, s) ==
    [hp EXCEPT ![b] = [Free EXCEPT !.st = "live", !.owner = "string", !.data = s]]

\* A Bytes in the new buffer b, holding s, with one handle.
BytesNew(hp, b, s) ==
    [hp EXCEPT ![b] = [Free EXCEPT !.st = "live", !.owner = "bytes", !.data = s,
                                   !.refs = 1]]

\* Arc::new(vec): the vector s in the new buffer b, with one handle.
ArcNew(hp, b, s) ==
    [hp EXCEPT ![b] = [Free EXCEPT !.st = "live", !.owner = "arc", !.data = s,
                                   !.strong = 1]]

\* <Bytes as Clone>::clone: one more handle on the same buffer.
BytesClone(hp, b) == [hp EXCEPT ![b].refs = @ + 1]

\* <Bytes as Drop>::drop: the last handle frees the buffer.
BytesDrop(hp, b) ==
    IF hp[b].refs = 1 THEN [hp EXCEPT ![b] = Free]
    ELSE [hp EXCEPT ![b].refs = @ - 1]

\* <String as Drop>::drop
StringDrop(hp, b) == [hp EXCEPT ![b] = Free]

\* <Arc as Clone>::clone: strong.fetch_add(1)
ArcClone(hp, b) == [hp EXCEPT ![b].strong = @ + 1]

\* A drop that destroys the vector while one other handle is left.
ArcDropEarly(hp, b) ==
    IF hp[b].strong <= 2 THEN [hp EXCEPT ![b] = Free]
    ELSE [hp EXCEPT ![b].strong = @ - 1]

\* <Arc as Drop>::drop: strong.fetch_sub(1); the holder that saw 1 destroys
\* the vector.
ArcDrop(hp, b) ==
    IF hp[b].strong = 1 THEN [hp EXCEPT ![b] = Free]
    ELSE [hp EXCEPT ![b].strong = @ - 1]

\* A try_unwrap that also succeeds while one other handle is left.
TryUnwrapOkOffByOne(hp, b) == hp[b].strong <= 2

\* Arc::try_unwrap succeeds iff strong.compare_exchange(1, 0) does.
TryUnwrapOk(hp, b) == hp[b].strong = 1

\* An unwrap that leaves the vector behind and returns an empty Bytes.
UnwrapIntoBytesEmpty(hp, b) ==
    [hp EXCEPT ![b] = [@ EXCEPT !.strong = 0, !.owner = "bytes", !.refs = 1,
                                !.data = <<>>]]

\* Ok(vec) => Bytes::from(vec): the Arc is gone, the vector's buffer becomes
\* the buffer of the returned Bytes.
UnwrapIntoBytes(hp, b) ==
    [hp EXCEPT ![b] = [@ EXCEPT !.strong = 0, !.owner = "bytes", !.refs = 1]]

\* Bytes::from(String): the String's buffer becomes the buffer of the Bytes.
StringIntoBytes(hp, b) ==
    [hp EXCEPT ![b] = [@ EXCEPT !.owner = "bytes", !.refs = 1]]

(***************************************************************************)
(* RawData                                                                 *)
(***************************************************************************)
Variants == {"String", "Bytes", "ArcBytes"}

\* pc: where the holder stands inside into_bytes ("idle" outside it); seen:
\* the strong count its try_unwrap met.
NoVal == [variant |-> "None", buf |-> 0, pc |-> "idle", seen |-> 0]

Val(v, b) == [variant |-> v, buf |-> b, pc |-> "idle", seen |-> 0]

AsBytes(hp, v) ==
    CASE v.variant = "String" -> hp[v.buf].data
      [] v.variant = "Bytes" -> hp[v.buf].data
      [] v.variant = "ArcBytes" -> hp[v.buf].data

\* An is_zero_copy that reports sharing, not representation.
IsZeroCopyShared(hp, v) == v.variant = "ArcBytes" /\ hp[v.buf].strong > 1

IsZeroCopy(hp, v) == v.variant = "ArcBytes"

RawLen(hp, v) == Len(AsBytes(hp, v))

\* An is_empty whose ArcBytes arm tests the handle, not the vector.
IsEmptyOfHandle(hp, v) ==
    CASE v.variant = "String" -> hp[v.buf].data = <<>>
      [] v.variant = "Bytes" -> hp[v.buf].data = <<>>
      [] v.variant = "ArcBytes" -> hp[v.buf].strong = 0

IsEmpty(hp, v) ==
    CASE v.variant = "String" -> hp[v.buf].data = <<>>
      [] v.variant = "Bytes" -> hp[v.buf].data = <<>>
      [] v.variant = "ArcBytes" -> hp[v.buf].data = <<>>

\* Formatter::write_str on a formatter that writes into a String: the text
\* is appended, and the write cannot fail.
WriteStr(text) == [ok |-> TRUE, text |-> text]

\* <RawData as Display>::fmt
Render(hp, v) ==
    CASE v.variant = "String" -> WriteStr(hp[v.buf].data)
      [] v.variant = "Bytes" -> WriteStr(FromUtf8Lossy(hp[v.buf].data))
      [] v.variant = "ArcBytes" -> WriteStr(FromUtf8Lossy(hp[v.buf].data))

\* A to_bytes that hands out a Bytes over the receiver's own buffer.
ToBytesAlias(hp, v) ==
    [heap |-> [hp EXCEPT ![v.buf].refs = @ + 1], dst |-> v.buf]

\* RawData::to_bytes: the heap after the call and the buffer of the Bytes it
\* returns.
ToBytes(hp, v) ==
    CASE v.variant = "String" ->
           LET b == Fresh(hp)
           IN  [heap |-> BytesNew(hp, b, CopySlice(hp[v.buf].data)), dst |-> b]
      [] v.variant = "Bytes" ->
           [heap |-> BytesClone(hp, v.buf), dst |-> v.buf]
      [] v.variant = "ArcBytes" ->
           LET b == Fresh(hp)
           IN  [heap |-> BytesNew(hp, b, CopySlice(hp[v.buf].data)), dst |-> b]

\* The storage behind v is what v's variant says: allocated, and owned by a
\* String, a Bytes or an Arc accordingly.
Readable(hp, v) ==
    /\ hp[v.buf].st = "live"
    /\ hp[v.buf].owner =
         (CASE v.variant = "String" -> "string"
            [] v.variant = "Bytes" -> "bytes"
            [] v.variant = "ArcBytes" -> "arc")

\* The record of the last operation: its receiver's variant and buffer (src)
\* and whether that storage was intact when the operation touched it (live),
\* the strong count of the receiver's Arc before the call (for into_bytes,
\* the count its try_unwrap met), the buffer of the Bytes returned (dst, 0 if
\* none), the constructor's argument (input), for a query or a conversion the
\* receiver's byte view before the call and for a constructor the new
\* value's (view), and the result (bytes, flag or num; for a constructor num
\* is the new value's len()).
NoEv ==
    [op |-> "none", variant |-> "None", src |-> 0, dst |-> 0, strong |-> 0,
     input |-> <<>>, view |-> <<>>, bytes |-> <<>>, flag |-> FALSE, num |-> 0,
     live |-> TRUE]

EvOf(op, hp, v) ==
    [NoEv EXCEPT !.op = op, !.variant = v.variant, !.src = v.buf,
                 !.strong = hp[v.buf].strong, !.view = AsBytes(hp, v),
                 !.live = Readable(hp, v)]

Idle(h) == slot[h].variant # "None" /\ slot[h].pc = "idle"

(***************************************************************************)
(* Constructors                                                            *)
(***************************************************************************)
\* RawData::from_string(s)
FromString(h, s) ==
    /\ slot[h] = NoVal
    /\ HasFresh(heap)
    /\ LET b == Fresh(heap)
           hp == StringNew(heap, b, s)
       IN  /\ heap' = hp
           /\ slot' = [slot EXCEPT ![h] = Val("String", b)]
           /\ ev' = [EvOf("from_string", hp, Val("String", b))
                       EXCEPT !.input = s, !.num = RawLen(hp, Val("String", b))]
    /\ UNCHANGED <<out, errVars>>

\* RawData::Bytes(bytes), bytes a Bytes holding p
FromBytes(h, p) ==
    /\ slot[h] = NoVal
    /\ HasFresh(heap)
    /\ LET b == Fresh(heap)
           hp == BytesNew(heap, b, p)
       IN  /\ heap' = hp
           /\ slot' = [slot EXCEPT ![h] = Val("Bytes", b)]
           /\ ev' = [EvOf("from_bytes", hp, Val("Bytes", b))
                       EXCEPT !.input = p, !.num = RawLen(hp, Val("Bytes", b))]
    /\ UNCHANGED <<out, errVars>>

\* RawData::from_arc_bytes(Arc::new(p))
FromArcBytes(h, p) ==
    /\ slot[h] = NoVal
    /\ HasFresh(heap)
    /\ LET b == Fresh(heap)
           hp == ArcNew(heap, b, p)
       IN  /\ heap' = hp
           /\ slot' = [slot EXCEPT ![h] = Val("ArcBytes", b)]
           /\ ev' = [EvOf("from_arc_bytes", hp, Val("ArcBytes", b))
                       EXCEPT !.input = p, !.num = RawLen(hp, Val("ArcBytes", b))]
    /\ UNCHANGED <<out, errVars>>

\* RawData::from_arc_slice(data), data an Arc<[u8]> holding p: the slice is
\* copied into a new vector, which gets an Arc of its own.
FromArcSlice(h, p) ==
    /\ slot[h] = NoVal
    /\ HasFresh(heap)
    /\ LET b == Fresh(heap)
           hp == ArcNew(heap, b, CopySlice(p))
       IN  /\ heap' = hp
           /\ slot' = [slot EXCEPT ![h] = Val("ArcBytes", b)]
           /\ ev' = [EvOf("from_arc_slice", hp, Val("ArcBytes", b))
                       EXCEPT !.input = p, !.num = RawLen(hp, Val("ArcBytes", b))]
    /\ UNCHANGED <<out, errVars>>

\* <RawData as Clone>::clone (derived): holder g gets the clone of h's value.
Clone(h, g) ==
    /\ Idle(h)
    /\ g # h
    /\ slot[g] = NoVal
    /\ LET v == slot[h]
       IN  CASE v.variant = "String" ->
                  /\ HasFresh(heap)
                  /\ LET b == Fresh(heap)
                     IN  /\ heap' = StringNew(heap, b, CopySlice(heap[v.buf].data))
                         /\ slot' = [slot EXCEPT ![g] = Val("String", b)]
             [] v.variant = "Bytes" ->
                  /\ heap' = BytesClone(heap, v.buf)
                  /\ slot' = [slot EXCEPT ![g] = Val("Bytes", v.buf)]
             [] v.variant = "ArcBytes" ->
                  /\ heap' = ArcClone(heap, v.buf)
                  /\ slot' = [slot EXCEPT ![g] = Val("ArcBytes", v.buf)]
    /\ ev' = [EvOf("clone", heap, slot[h]) EXCEPT !.view = <<>>]
    /\ UNCHANGED <<out, errVars>>

\* drop(value)
Drop(h) ==
    /\ Idle(h)
    /\ LET v == slot[h]
       IN  heap' = CASE v.variant = "String" -> StringDrop(heap, v.buf)
                     [] v.variant = "Bytes" -> BytesDrop(heap, v.buf)
                     [] v.variant = "ArcBytes" -> ArcDrop(heap, v.buf)
    /\ slot' = [slot EXCEPT ![h] = NoVal]
    /\ ev' = [EvOf("drop", heap, slot[h]) EXCEPT !.view = <<>>]
    /\ UNCHANGED <<out, errVars>>

(***************************************************************************)
(* Queries                                                                 *)
(***************************************************************************)
\* value.as_bytes()
DoAsBytes(h) ==
    /\ Idle(h)
    /\ ev' = [EvOf("as_bytes", heap, slot[h]) EXCEPT !.bytes = AsBytes(heap, slot[h])]
    /\ UNCHANGED <<heap, slot, out, errVars>>

\* value.len()
DoLen(h) ==
    /\ Idle(h)
    /\ ev' = [EvOf("len", heap, slot[h]) EXCEPT !.num = RawLen(heap, slot[h])]
    /\ UNCHANGED <<heap, slot, out, errVars>>

\* value.is_empty()
DoIsEmpty(h) ==
    /\ Idle(h)
    /\ ev' = [EvOf("is_empty", heap, slot[h]) EXCEPT !.flag = IsEmpty(heap, slot[h])]
    /\ UNCHANGED <<heap, slot, out, errVars>>

\* value.is_zero_copy()
DoIsZeroCopy(h) ==
    /\ Idle(h)
    /\ ev' = [EvOf("is_zero_copy", heap, slot[h])
                EXCEPT !.flag = IsZeroCopy(heap, slot[h])]
    /\ UNCHANGED <<heap, slot, out, errVars>>

\* format!("{}", value)
DoDisplay(h) ==
    /\ Idle(h)
    /\ ev' = [EvOf("display", heap, slot[h])
                EXCEPT !.bytes = Render(heap, slot[h]).text,
                       !.flag = Render(heap, slot[h]).ok]
    /\ UNCHANGED <<heap, slot, out, errVars>>

(***************************************************************************)
(* Conversions to Bytes                                                    *)
(***************************************************************************)
\* value.to_bytes(); the caller keeps the Bytes in out.
DoToBytes(h) ==
    /\ Idle(h)
    /\ out = 0
    /\ slot[h].variant # "Bytes" => HasFresh(heap)
    /\ LET r == ToBytes(heap, slot[h])
       IN  /\ heap' = r.heap
           /\ out' = r.dst
           /\ ev' = [EvOf("to_bytes", heap, slot[h])
                       EXCEPT !.dst = r.dst, !.bytes = r.heap[r.dst].data]
    /\ UNCHANGED <<slot, errVars>>

\* value.into_bytes(), up to the return for String and Bytes and for an
\* ArcBytes whose try_unwrap succeeds; a failed try_unwrap leaves the holder
\* with the handle `shared`, about to copy.
DoIntoBytes(h) ==
    /\ Idle(h)
    /\ out = 0
    /\ LET v == slot[h]
           e == EvOf("into_bytes", heap, v)
       IN  CASE v.variant = "String" ->
                  /\ heap' = StringIntoBytes(heap, v.buf)
                  /\ slot' = [slot EXCEPT ![h] = NoVal]
                  /\ out' = v.buf
                  /\ ev' = [e EXCEPT !.dst = v.buf, !.bytes = heap'[v.buf].data]
             [] v.variant = "Bytes" ->
                  /\ heap' = heap
                  /\ slot' = [slot EXCEPT ![h] = NoVal]
                  /\ out' = v.buf
                  /\ ev' = [e EXCEPT !.dst = v.buf, !.bytes = heap'[v.buf].data]
             [] v.variant = "ArcBytes" ->
                  IF TryUnwrapOk(heap, v.buf)
                  THEN /\ heap' = UnwrapIntoBytes(heap, v.buf)
                       /\ slot' = [slot EXCEPT ![h] = NoVal]
                       /\ out' = v.buf
                       /\ ev' = [e EXCEPT !.dst = v.buf, !.bytes = heap'[v.buf].data]
                  ELSE /\ heap' = heap
                       /\ slot' = [slot EXCEPT ![h].pc = "copy",
                                               ![h].seen = heap[v.buf].strong]
                       /\ out' = out
                       /\ ev' = [e EXCEPT !.op = "try_unwrap_err", !.view = <<>>]
    /\ UNCHANGED errVars

\* Err(shared) => Bytes::copy_from_slice(shared.as_slice()): into_bytes
\* returns the copy.
IntoBytesCopy(h) ==
    /\ slot[h].pc = "copy"
    /\ out = 0
    /\ HasFresh(heap)
    /\ LET v == slot[h]
           b == Fresh(heap)
       IN  /\ heap' = BytesNew(heap, b, CopySlice(heap[v.buf].data))
           /\ out' = b
           /\ ev' = [EvOf("into_bytes", heap, v)
                       EXCEPT !.dst = b, !.bytes = heap'[b].data,
                              !.strong = v.seen]
    /\ slot' = [slot EXCEPT ![h].pc = "release"]
    /\ UNCHANGED errVars

\* ... and `shared` goes out of scope.
IntoBytesRelease(h) ==
    /\ slot[h].pc = "release"
    /\ heap' = ArcDrop(heap, slot[h].buf)
    /\ slot' = [slot EXCEPT ![h] = NoVal]
    /\ ev' = [EvOf("drop_shared", heap, slot[h]) EXCEPT !.view = <<>>]
    /\ UNCHANGED <<out, errVars>>

\* The caller drops the Bytes it got.
DropOut ==
    /\ out # 0
    /\ heap' = BytesDrop(heap, out)
    /\ out' = 0
    /\ ev' = [NoEv EXCEPT !.op = "drop_out", !.src = out]
    /\ UNCHANGED <<slot, errVars>>

\* The caller overwrites the Bytes it got (Bytes::try_into_mut, then a write
\* through the BytesMut): possible only for the sole handle on the buffer.
MutateOut(p) ==
    /\ out # 0
    /\ heap[out].refs = 1
    /\ p # heap[out].data
    /\ heap' = [heap EXCEPT ![out].data = p]
    /\ ev' = [NoEv EXCEPT !.op = "mutate_out", !.src = out]
    /\ UNCHANGED <<slot, out, errVars>>

(***************************************************************************)
(* DataErrKind and WparseError                                             *)
(***************************************************************************)
\* A String of an error is a sequence of chars; a literal piece of a format
\* string is kept as one element.
MsgChars == {"a", "\"", "\\"}

Msgs == UNION {[1..n -> MsgChars] : n \in 0..MaxMsgLen}

None == [some |-> FALSE, val |-> <<>>]
Some(s) == [some |-> TRUE, val |-> s]

DataErrKinds ==
    {[k |-> "FormatError", a |-> m, b |-> o] :
        m \in Msgs, o \in {None} \cup {Some(d) : d \in Msgs}}
    \cup {[k |-> t, a |-> m, b |-> None] :
        t \in {"UnParse", "LessStc", "LessDef"}, m \in Msgs}
    \cup {[k |-> t, a |-> <<>>, b |-> None] :
        t \in {"NotComplete", "LessData", "EmptyData"}}

NoKind == [k |-> "none", a |-> <<>>, b |-> None]

\* <char as Debug> inside a string: the escapes of char::escape_debug.
EscapeDebug(c) ==
    IF c = "\"" THEN <<"\\", "\"">>
    ELSE IF c = "\\" THEN <<"\\", "\\">>
    ELSE <<c>>

RECURSIVE EscapeAll(_)
EscapeAll(s) ==
    IF s = <<>> THEN <<>> ELSE EscapeDebug(Head(s)) \o EscapeAll(Tail(s))

\* {:?} of a String
DebugString(s) == <<"\"">> \o EscapeAll(s) \o <<"\"">>

\* {:?} of an Option<String>
DebugOption(o) ==
    IF o.some THEN <<"Some(">> \o DebugString(o.val) \o <<")">>
    ELSE <<"None">>

\* <DataErrKind as Display>::fmt, from the #[error(...)] attributes.
DisplayKind(e) ==
    CASE e.k = "FormatError" ->
           <<"format error : ">> \o e.a \o <<"\n">> \o DebugOption(e.b) \o <<" ">>
      [] e.k = "NotComplete" -> <<"not complete">>
      [] e.k = "UnParse" -> <<"no parse data: ">> \o e.a
      [] e.k = "LessData" -> <<"less data">>
      [] e.k = "EmptyData" -> <<"empty data">>
      [] e.k = "LessStc" -> <<"struct less : ">> \o e.a
      [] e.k = "LessDef" -> <<"define less : ">> \o e.a

\* <DataErrKind as From<String>>::from
KindFromString(value) == [k |-> "FormatError", a |-> value, b |-> None]

\* <WparseReason as From<UvsReason>>::from, derived: the Uvs variant.
ReasonFromUvs(u) == [tag |-> "Uvs", arg |-> u]

\* WparseReason::from_data(): UvsFrom builds the reason from
\* UvsReason::DataError.
ReasonFromData == ReasonFromUvs("DataError")

\* <WparseReason as ErrorCode>::error_code
ErrorCode(reason) == 500

\* reason.to_err(): a StructError with that reason and no detail.
ToErr(reason) == [reason |-> reason, detail |-> None]

\* err.with_detail(text)
WithDetail(err, text) == [err EXCEPT !.detail = Some(text)]

\* StructError::error_code: the code of its reason.
ErrCodeOf(err) == ErrorCode(err.reason)

\* A conversion that files the error under Plugin and keeps no detail.
FromDataErrKindAsPlugin(value) ==
    ToErr([tag |-> "Plugin", arg |-> "DataError"])

\* <WparseError as From<DataErrKind>>::from
FromDataErrKind(value) ==
    WithDetail(ToErr(ReasonFromData), DisplayKind(value))

NoErr == [reason |-> [tag |-> "none", arg |-> "none"], detail |-> None]

\* A DataErrKind is built.
MakeKind(e) ==
    /\ kind' = e
    /\ werr' = NoErr
    /\ UNCHANGED bufVars

\* DataErrKind::from(value)
MakeKindFromString(value) ==
    /\ kind' = KindFromString(value)
    /\ werr' = NoErr
    /\ UNCHANGED bufVars

\* WparseError::from(kind)
Convert ==
    /\ kind # NoKind
    /\ werr = NoErr
    /\ werr' = FromDataErrKind(kind)
    /\ UNCHANGED <<kind, bufVars>>

(***************************************************************************)
(* Specifications                                                          *)
(***************************************************************************)
Init ==
    /\ heap = [b \in BufIds |-> Free]
    /\ slot = [h \in Holders |-> NoVal]
    /\ out = 0
    /\ ev = NoEv
    /\ kind = NoKind
    /\ werr = NoErr

\* The payloads the holders of Spec build their values from: the empty one
\* and bytes that are not UTF-8.
SamplePayloads == {<<>>, <<255, 254, 253>>}

\* Holders construct, clone, read, convert and drop values in any
\* interleaving.
Next ==
    \E h \in Holders :
        \/ \E s \in SamplePayloads \cap Strs : FromString(h, s)
        \/ \E p \in SamplePayloads : FromBytes(h, p)
        \/ \E p \in SamplePayloads : FromArcBytes(h, p)
        \/ \E p \in SamplePayloads : FromArcSlice(h, p)
        \/ \E g \in Holders : Clone(h, g)
        \/ Drop(h)
        \/ DoAsBytes(h)
        \/ DoLen(h)
        \/ DoIsEmpty(h)
        \/ DoIsZeroCopy(h)
        \/ DoDisplay(h)
        \/ DoToBytes(h)
        \/ DoIntoBytes(h)
        \/ IntoBytesCopy(h)
        \/ IntoBytesRelease(h)
        \/ DropOut
        \/ \E p \in SamplePayloads : MutateOut(p)

Spec == Init /\ [][Next]_vars

\* One holder, once it has dropped what it held, builds a value from any
\* payload within the bounds and applies the operations to it.
NextPure ==
    \/ /\ out = 0
       /\ slot[1] = NoVal
       /\ \/ \E s \in Strs : FromString(1, s)
          \/ \E p \in Payloads : FromBytes(1, p)
          \/ \E p \in Payloads : FromArcBytes(1, p)
          \/ \E p \in Payloads : FromArcSlice(1, p)
    \/ Drop(1)
    \/ DoAsBytes(1)
    \/ DoLen(1)
    \/ DoIsEmpty(1)
    \/ DoIsZeroCopy(1)
    \/ DoDisplay(1)
    \/ DoToBytes(1)
    \/ DoIntoBytes(1)
    \/ DropOut

SpecPure == Init /\ [][NextPure]_vars

\* Errors are built and converted.
NextErr ==
    \/ \E e \in DataErrKinds : MakeKind(e)
    \/ \E m \in Msgs : MakeKindFromString(m)
    \/ Convert

SpecErr == Init /\ [][NextErr]_vars

(***************************************************************************)
(* Properties                                                              *)
(***************************************************************************)
\* The holders of the Arc over buffer b, those inside into_bytes included.
ArcHolders(b) ==
    Cardinality({h \in Holders : slot[h].variant = "ArcBytes" /\ slot[h].buf = b})

\* t holds r as a contiguous piece.
Contains(t, r) ==
    \E i \in 1..Len(t) : i + Len(r) - 1 <= Len(t) /\ SubSeq(t, i, i + Len(r) - 1) = r

Constructors == {"from_string", "from_bytes", "from_arc_bytes", "from_arc_slice"}

Readers == {"as_bytes", "to_bytes", "len", "is_empty", "is_zero_copy", "display"}

\* C1: into_bytes returns a Bytes over a buffer other than the receiver's (a
\* copy) if and only if the receiver is an ArcBytes whose try_unwrap met a
\* strong count of two or more; a String, a Bytes and an ArcBytes with a
\* count of exactly one hand their own buffer over.
C1_IntoBytesCopiesIffShared ==
    ev.op = "into_bytes" =>
        /\ (ev.dst # ev.src) <=> (ev.variant = "ArcBytes" /\ ev.strong >= 2)
        /\ ev.variant \in {"String", "Bytes"} => ev.dst = ev.src
        /\ (ev.variant = "ArcBytes" /\ ev.strong = 1) => ev.dst = ev.src

\* An ArcBytes with two holders was consumed by one of them, and a copy came
\* back.
C1_Witness ==
    /\ ev.op = "into_bytes"
    /\ ev.variant = "ArcBytes"
    /\ ev.strong = 2
    /\ ev.dst # ev.src
    /\ ArcHolders(ev.src) = 2

\* C2: the Bytes that to_bytes returns never shares the buffer behind the
\* receiver, whatever the variant.
C2_ToBytesNeverAliases ==
    ev.op = "to_bytes" => ev.dst # ev.src

\* C3: an allocation behind an Arc is live, still owned by the Arc and
\* counted right as long as a holder remains; it is released at the step
\* that takes its last holder away (no live Arc allocation is without a
\* holder); and no operation touches storage that was released or handed
\* over before (which a read after release, or a second release, would).
C3_ArcLifetime ==
    /\ ev.live
    /\ \A b \in BufIds :
        /\ ArcHolders(b) > 0 =>
              /\ heap[b].st = "live"
              /\ heap[b].owner = "arc"
              /\ heap[b].strong = ArcHolders(b)
        /\ (heap[b].st = "live" /\ heap[b].owner = "arc") => ArcHolders(b) > 0

\* A holder whose into_bytes found the allocation shared is, by the time it
\* lets go of its handle, the last one: its release frees the allocation.
C3_Witness ==
    /\ ev.op = "drop_shared"
    /\ ev.strong = 1
    /\ heap[ev.src].st = "free"
    /\ ArcHolders(ev.src) = 0

\* C4: whatever the constructor and the payload, the new value's as_bytes()
\* is the payload and its len() is the payload's length.
C4_ConstructorRoundTrip ==
    ev.op \in Constructors =>
        /\ ev.view = ev.input
        /\ ev.num = Len(ev.input)
        /\ ev.variant = (IF ev.op = "from_string" THEN "String"
                         ELSE IF ev.op = "from_bytes" THEN "Bytes"
                         ELSE "ArcBytes")

\* The compatibility constructor built a value from a three-byte slice.
C4_Witness ==
    /\ ev.op = "from_arc_slice"
    /\ ev.input = <<255, 254, 253>>
    /\ slot[1].variant = "ArcBytes"

\* C5: is_zero_copy() answers TRUE exactly for the ArcBytes variant, whatever
\* the payload and the number of holders.
C5_ZeroCopyIffArcBytes ==
    ev.op = "is_zero_copy" => (ev.flag <=> ev.variant = "ArcBytes")

\* is_zero_copy() was asked of an ArcBytes with an empty payload and two
\* holders.
C5_Witness ==
    /\ ev.op = "is_zero_copy"
    /\ ev.variant = "ArcBytes"
    /\ ev.strong = 2
    /\ ArcHolders(ev.src) = 2
    /\ ev.view = <<>>
    /\ ev.flag

\* C6: is_empty() and len() == 0 agree on every value, and each is what the
\* byte view says.
C6_EmptyIffLenZero ==
    /\ \A h \in Holders :
        slot[h] # NoVal =>
            (IsEmpty(heap, slot[h]) <=> (RawLen(heap, slot[h]) = 0))
    /\ ev.op = "is_empty" => (ev.flag <=> Len(ev.view) = 0)
    /\ ev.op = "len" => ev.num = Len(ev.view)

\* is_empty() answered FALSE for an ArcBytes.
C6_Witness ==
    /\ ev.op = "is_empty"
    /\ ev.variant = "ArcBytes"
    /\ ~ev.flag
    /\ Len(ev.view) = 3

\* C7: Display never fails; what it writes is text; a payload that is UTF-8
\* is written as it is; a payload that is not is written with U+FFFD in it,
\* and FF FE FD as three of them.
C7_DisplayLossy ==
    ev.op = "display" =>
        /\ ev.flag
        /\ IsStr(ev.bytes)
        /\ IsStr(ev.view) => ev.bytes = ev.view
        /\ ~IsStr(ev.view) => Contains(ev.bytes, Replacement)
        /\ ev.view = <<255, 254, 253>> =>
              ev.bytes = Replacement \o Replacement \o Replacement

\* An ArcBytes holding FF FE FD was rendered.
C7_Witness ==
    /\ ev.op = "display"
    /\ ev.variant = "ArcBytes"
    /\ ev.view = <<255, 254, 253>>
    /\ Len(ev.bytes) = 9

\* C8: the WparseError made from a DataErrKind has the reason Uvs, the
\* rendered DataErrKind as its detail, and the code 500.
C8_DataErrConversion ==
    werr # NoErr =>
        /\ werr.reason.tag = "Uvs"
        /\ werr.detail = Some(DisplayKind(kind))
        /\ ErrCodeOf(werr) = 500
        /\ kind.k = "NotComplete" => werr.detail.val = <<"not complete">>
        /\ kind.k = "LessStc" => werr.detail.val = <<"struct less : ">> \o kind.a

\* A FormatError with both fields filled was converted.
C8_Witness ==
    /\ werr # NoErr
    /\ kind.k = "FormatError"
    /\ kind.a # <<>>
    /\ kind.b.some
    /\ kind.b.val # <<>>

C10_ConversionsKeepContent ==
    ev.op \in {"to_bytes", "into_bytes"} =>
        /\ ev.bytes = ev.view
        /\ heap[ev.dst].st = "live"
        /\ heap[ev.dst].data = ev.view

\* The sole holder of a non-empty ArcBytes consumed it and got its buffer
\* back as the Bytes.
C10_Witness ==
    /\ ev.op = "into_bytes"
    /\ ev.variant = "ArcBytes"
    /\ ev.strong = 1
    /\ ev.dst = ev.src
    /\ ev.bytes = <<255, 254, 253>>

====
